---- MODULE Spec2Model ----
(***************************************************************************)
(* Kinetic Monte-Carlo crystal growth engine of core_func.py.              *)
(*                                                                         *)
(* Heights are integer valued.  The rate parameters are taken at points    *)
(* where every rate of the model is an exact power of two:                 *)
(*     T  = Tq * 2*ln(2)      so that exp(-T/2) = 2^(-Tq)                  *)
(*     mu = Mq * ln(2)        so that exp(mu)   = 2^Mq                     *)
(* A float x >= 0 is held as the integer x * 2^MinExp.  Every float        *)
(* operation rounds its exact result to SigBits significant bits, to       *)
(* nearest, ties to even, as IEEE arithmetic does with the 53 significant  *)
(* bits of a float64; a result below 2^(-MinExp) underflows to 0.0.        *)
(***************************************************************************)
EXTENDS Integers, Sequences, FiniteSets, TLC

VARIABLES pc, dims, surface, T, mu, steps, before, event, location, target,
          err, neigh, face, face_loc, boundaries, b, forward_matrix,
          backward_matrix

vars == <<pc, dims, surface, T, mu, steps, before, event, location, target,
          err, neigh, face, face_loc, boundaries, b, forward_matrix,
          backward_matrix>>

----------------------------------------------------------------------------
(* Bounds of the model *)

\* largest side of the lattice of a simulation run
MaxL == 2
\* largest number of interaction steps of one run
MaxSteps == 2
\* largest side of the lattice handed to the neighbour classifier alone
MaxNNL == 3
\* largest side of the lattice of the dislocation descriptor
MaxDisL == 5
\* largest Burgers vector magnitude
MaxB == 1
\* significant bits of a float
SigBits == 4

\* a positive float is at least 2^(-MinExp); np.exp gives 0.0 below it
MinExp == 12

\* T = Tq * 2 ln 2, mu = Mq * ln 2.  The pairs <<Tq, Mq>> of a run:
\* T = 0 with mu = 0; T = 1.386 with mu = -0.693; T so large that every
\* rate underflows
Params == {<<0, 0>>, <<1, 0 - 1>>, <<MinExp, 0>>}

\* two height levels give a site every pattern of higher-or-equal neighbours
Levels == {0, 1}

None == "None"
NaN == 0 - 1
\* no class: the name subset was never assigned
Unbound == 0
\* no site
NoSite == <<0 - 1, 0 - 1>>

----------------------------------------------------------------------------
(* Arithmetic helpers *)

RECURSIVE Pow2(_)
Pow2(k) == IF k <= 0 THEN 1 ELSE 2 * Pow2(k - 1)

\* 2^e for e in 0 .. MinExp + 2, computed once
Pow2Table == [e \in 0 .. MinExp + 2 |-> Pow2(e)]

\* 1.0
One == Pow2(MinExp)

\* np.floor(k / n) for an integer k and a positive integer n
Floor(k, n) == k \div n

\* mutant of Wrap: the index is clamped to the axis instead of wrapped around
WrapClamped(k, n) == IF k < 0 THEN 0 ELSE IF k >= n THEN n - 1 ELSE k

\* int(k - n*np.floor(k/n)): the periodic wrap of index k on an axis of length n
Wrap(k, n) == k - n * Floor(k, n)

Sites(d) == (0 .. d[1] - 1) \X (0 .. d[2] - 1)

Ind(c) == IF c THEN 1 ELSE 0

----------------------------------------------------------------------------
(* Floating point *)

\* 2^SigBits
Sig == Pow2(SigBits)

\* the power of two q with 2^(SigBits-1) <= (n/d)/q < 2^SigBits, at least 1
RECURSIVE Quantum(_, _, _)
Quantum(n, d, q) ==
    IF n >= d * q * Sig THEN Quantum(n, d, 2 * q) ELSE q

\* n/d rounded to SigBits significant bits, to nearest, ties to even
RoundSig(n, d) ==
    IF n = 0 THEN 0
    ELSE LET q == Quantum(n, d, 1)
             k == n \div (d * q)
             r == n % (d * q)
         IN  IF 2 * r > d * q \/ (2 * r = d * q /\ k % 2 = 1)
             THEN (k + 1) * q
             ELSE k * q

Fadd(x, y) == IF x = NaN \/ y = NaN THEN NaN ELSE RoundSig(x + y, 1)

Fmul(x, y) == IF x = NaN \/ y = NaN THEN NaN ELSE RoundSig(x * y, One)

\* 0.0/0.0 is nan (numpy warns and goes on); a positive x over 0.0 is inf,
\* which no caller produces: a divisor is a rounded sum that includes x
Fdiv(x, y) ==
    IF x = NaN \/ y = NaN \/ y = 0 THEN NaN ELSE RoundSig(x * One, y)

\* x < y: False when either side is nan
Flt(x, y) == x # NaN /\ y # NaN /\ x < y

\* np.exp(e * ln 2) = 2^e
Exp2(e) == IF e < 0 - MinExp THEN 0 ELSE Pow2Table[MinExp + e]

\* the values uniform(0,1) can return: the multiples of 2^(-SigBits) in [0,1)
Draws == {k * Pow2(MinExp - SigBits) : k \in 0 .. Sig - 1}

----------------------------------------------------------------------------
(* init_crystal and nearest_neighbours *)

init_crystal(d) == [s \in Sites(d) |-> 1]

\* mutant of nearest_neighbours: a neighbour counts only when strictly higher
nearest_neighbours_strict(s, d) ==
    [p \in Sites(d) |->
        LET i == p[1]
            j == p[2]
        IN  1 + Ind(s[<<i, j>>] < s[<<Wrap(i + 1, d[1]), j>>])
              + Ind(s[<<i, j>>] < s[<<i, Wrap(j + 1, d[2])>>])
              + Ind(s[<<i, j>>] < s[<<Wrap(i - 1, d[1]), j>>])
              + Ind(s[<<i, j>>] < s[<<i, Wrap(j - 1, d[2])>>])]

nearest_neighbours(s, d) ==
    [p \in Sites(d) |->
        LET i == p[1]
            j == p[2]
        IN  1 + Ind(s[<<i, j>>] <= s[<<Wrap(i + 1, d[1]), j>>])
              + Ind(s[<<i, j>>] <= s[<<i, Wrap(j + 1, d[2])>>])
              + Ind(s[<<i, j>>] <= s[<<Wrap(i - 1, d[1]), j>>])
              + Ind(s[<<i, j>>] <= s[<<i, Wrap(j - 1, d[2])>>])]

----------------------------------------------------------------------------
(* Rate model *)

evaporation_rate(n, t) == Exp2(0 - 2 * n * t)

impingement_rate(m, t) == Fmul(Exp2(m), evaporation_rate(3, t))

\* Esd and DeltaE are held doubled: (Esd + DeltaE) * T = (Esd2 + 2*DeltaE) * Tq * ln 2
surface_migration_rate(n, m, t) ==
    LET Esd2 == IF n = 1 \/ m = 1 THEN 1
                ELSE IF n = 2 \/ m = 2 THEN 3
                ELSE 5
        DeltaE == IF m <= n THEN n - m ELSE 0
    IN  Fmul(Exp2(0 - 3), Exp2(0 - (Esd2 + 2 * DeltaE) * t))

----------------------------------------------------------------------------
(* Event selector *)

\* counts[n]: the number of sites of class n (np.unique with return_counts)
counts(ng, d, n) == Cardinality({p \in Sites(d) : ng[p] = n})

\* evaporation_rate(i,T)+impingement_rate(mu,T)+surface_migration_rate(i,i,T)
class_rate(t, m, i) ==
    Fadd(Fadd(evaporation_rate(i, t), impingement_rate(m, t)),
         surface_migration_rate(i, i, t))

\* counts[i]*(evaporation_rate(i,T)+impingement_rate(mu,T)+surface_migration_rate(i,i,T))
class_mass(ng, d, t, m, i) == Fmul(counts(ng, d, i) * One, class_rate(t, m, i))

\* denom after the loop over range(1,6)
class_denom(ng, d, t, m) ==
    LET R(i) == class_mass(ng, d, t, m, i)
    IN  Fadd(Fadd(Fadd(Fadd(Fadd(0, R(1)), R(2)), R(3)), R(4)), R(5))

\* prob[0], prob[0]+prob[1], ..., prob[0]+...+prob[4]: the thresholds of the chain
class_thresholds(s, d, t, m) ==
    LET ng == nearest_neighbours(s, d)
        denom == class_denom(ng, d, t, m)
        prob == [i \in 1 .. 5 |-> Fdiv(class_mass(ng, d, t, m, i), denom)]
        c2 == Fadd(prob[1], prob[2])
        c3 == Fadd(c2, prob[3])
        c4 == Fadd(c3, prob[4])
        c5 == Fadd(c4, prob[5])
    IN  <<prob[1], c2, c3, c4, c5>>

\* mutant of choose_subset: the chain ends in else, so the last class is the default
choose_subset_default(thr, rand) ==
    IF Flt(rand, thr[1]) THEN 1
    ELSE IF Flt(rand, thr[2]) THEN 2
    ELSE IF Flt(rand, thr[3]) THEN 3
    ELSE IF Flt(rand, thr[4]) THEN 4
    ELSE 5

\* the class of the draw rand, or Unbound when no branch of the chain assigns subset
choose_subset(thr, rand) ==
    IF Flt(rand, thr[1]) THEN 1
    ELSE IF Flt(rand, thr[2]) THEN 2
    ELSE IF Flt(rand, thr[3]) THEN 3
    ELSE IF Flt(rand, thr[4]) THEN 4
    ELSE IF Flt(rand, thr[5]) THEN 5
    ELSE Unbound

\* k_plus/denom and (k_plus+k_minus)/denom at a site of class subset
event_thresholds(subset, t, m) ==
    LET k_plus == impingement_rate(m, t)
        k_minus == evaporation_rate(subset, t)
        k_nn == surface_migration_rate(subset, subset, t)
        denom == Fadd(Fadd(k_plus, k_minus), k_nn)
    IN  <<Fdiv(k_plus, denom), Fdiv(Fadd(k_plus, k_minus), denom)>>

\* the branch of the event-type chain that the draw rand takes
event_type(thr, rand) ==
    IF Flt(rand, thr[1]) THEN "deposit"
    ELSE IF Flt(rand, thr[2]) THEN "evaporate"
    ELSE "migrate"

\* the eight offsets of choice([...]) in a migration
Migrations ==
    {<<1, 1>>, <<1, 0>>, <<1, 0 - 1>>, <<0, 1>>, <<0, 0 - 1>>,
     <<0 - 1, 1>>, <<0 - 1, 0>>, <<0 - 1, 0 - 1>>}

\* the periodic-wrapped site at offset mg of loc
migrate_target(loc, mg, d) ==
    <<Wrap(loc[1] + mg[1], d[1]), Wrap(loc[2] + mg[2], d[2])>>

\* rand < prob
migrate_accepted(prob, rand) == Flt(rand, prob)

----------------------------------------------------------------------------
(* Lattice mutator *)

\* mutant of deposit: surface[location[0]] += 1 raises the whole row
deposit_row(s, loc) == [p \in DOMAIN s |-> IF p[1] = loc[1] THEN s[p] + 1 ELSE s[p]]

\* surface[location] += 1
deposit(s, loc) == [s EXCEPT ![loc] = @ + 1]

\* mutant of evaporate: an empty site stays at height 0
evaporate_floor(s, loc) == [s EXCEPT ![loc] = IF @ > 0 THEN @ - 1 ELSE 0]

\* surface[location] -= 1
evaporate(s, loc) == [s EXCEPT ![loc] = @ - 1]

\* mutant of migrate: the atom leaves the source and never lands
migrate_lost(s, loc, tgt) == [s EXCEPT ![loc] = @ - 1]

\* surface[location] -= 1, then surface[target] += 1
migrate(s, loc, tgt) == [[s EXCEPT ![loc] = @ - 1] EXCEPT ![tgt] = @ + 1]

----------------------------------------------------------------------------
(* One call of interaction(surface, T, mu) *)

NoDislocation ==
    /\ UNCHANGED <<neigh, face, face_loc, boundaries, b, forward_matrix,
                   backward_matrix>>

\* the call ends by the exception e; nothing was assigned to the surface
Raised(e) ==
    /\ err' = e
    /\ event' = None
    /\ location' = NoSite
    /\ target' = NoSite
    /\ surface' = surface

Applied(ev, loc, tgt, s) ==
    /\ err' = None
    /\ event' = ev
    /\ location' = loc
    /\ target' = tgt
    /\ surface' = s

Interaction ==
    /\ pc = "run"
    /\ err = None
    /\ steps < MaxSteps
    /\ steps' = steps + 1
    /\ before' = surface
    /\ UNCHANGED <<pc, dims, T, mu>>
    /\ NoDislocation
    /\ \E ng \in {nearest_neighbours(surface, dims)} :
       \E cthr \in {class_thresholds(surface, dims, T, mu)} :
       \E subset \in {choose_subset(cthr, r) : r \in Draws} :
         IF subset = Unbound
         THEN Raised("UnboundLocalError")
         ELSE \E options \in {{p \in Sites(dims) : ng[p] = subset}} :
              \E ethr \in {event_thresholds(subset, T, mu)} :
                IF options = {}
                THEN Raised("IndexError")
                ELSE \E loc \in options :
                     \E ev \in {event_type(ethr, r) : r \in Draws} :
                       \/ /\ ev = "deposit"
                          /\ Applied("deposit", loc, NoSite, deposit(surface, loc))
                       \/ /\ ev = "evaporate"
                          /\ Applied("evaporate", loc, NoSite, evaporate(surface, loc))
                       \/ /\ ev = "migrate"
                          /\ \E mg \in Migrations :
                             \E tgt \in {migrate_target(loc, mg, dims)} :
                             \E prob \in {surface_migration_rate(ng[loc], ng[tgt], T)} :
                             \E acc \in {migrate_accepted(prob, r) : r \in Draws} :
                               IF acc
                               THEN Applied("migrate_accepted", loc, tgt,
                                            migrate(surface, loc, tgt))
                               ELSE Applied("migrate_rejected", loc, tgt, surface)

----------------------------------------------------------------------------
(* The neighbour classifier called on its own *)

Classify ==
    /\ pc = "nn_call"
    /\ pc' = "nn_done"
    /\ neigh' = nearest_neighbours(surface, dims)
    /\ UNCHANGED <<dims, surface, T, mu, steps, before, event, location, target,
                   err, face, face_loc, boundaries, b, forward_matrix,
                   backward_matrix>>

----------------------------------------------------------------------------
(* Dislocation descriptor and dislocation-aware classifier *)

\* the names bound at module level of core_func.py
ModuleNames ==
    {"find", "np", "plt", "uniform", "choice", "kb", "Simulation",
     "init_crystal", "nearest_neighbours", "evaporation_rate",
     "impingement_rate", "surface_migration_rate", "choose_subset",
     "interaction", "dislocation_matrices", "dislocation_neighbours",
     "nm_migration_rate", "dis_choose_subset", "find_avg_height", "find_rate",
     "compute_rates"}

\* evaluating a name that is no local variable: it is looked up at module level
NameLookup(name) == IF name \in ModuleNames THEN None ELSE "NameError"

\* numpy index k on an axis of length n: a negative index counts from the end
Index(k, n) == IF k < 0 THEN k + n ELSE k

InRange(k, n) == 0 - n <= k /\ k < n

Failed(e) == [err |-> e, forward |-> None, backward |-> None]

\* mutant of backward_loc: the backward step is written on the line of the forward step
backward_loc_same(fl) == fl

\* face_loc-1: the line of the backward matrix
backward_loc(fl) == fl - 1

dislocation_matrices(d, f, fl, bd, bb) ==
    LET line == bd[1] .. bd[2] - 1
    IN  IF bd[2] - bd[1] < 0
        THEN Failed("ValueError")
        ELSE IF f = 0
        THEN IF ~InRange(fl, d[1]) \/ \E i \in line : ~InRange(i, d[2])
             THEN Failed("IndexError")
             ELSE [err |-> None,
                   forward |-> [p \in Sites(d) |->
                       IF p[1] = Index(fl, d[1]) /\ \E i \in line : p[2] = Index(i, d[2])
                       THEN bb ELSE 0],
                   backward |-> [p \in Sites(d) |->
                       IF p[1] = Index(backward_loc(fl), d[1]) /\ \E i \in line : p[2] = Index(i, d[2])
                       THEN 0 - bb ELSE 0]]
        ELSE IF f = 1
        THEN IF ~InRange(fl, d[2]) \/ \E i \in line : ~InRange(i, d[1])
             THEN Failed("IndexError")
             ELSE [err |-> None,
                   forward |-> [p \in Sites(d) |->
                       IF p[2] = Index(fl, d[2]) /\ \E i \in line : p[1] = Index(i, d[1])
                       THEN bb ELSE 0],
                   backward |-> [p \in Sites(d) |->
                       IF p[2] = Index(backward_loc(fl), d[2]) /\ \E i \in line : p[1] = Index(i, d[1])
                       THEN 0 - bb ELSE 0]]
        ELSE IF NameLookup("ValueWarning") = None
        THEN Failed("ValueWarning")
        ELSE Failed(NameLookup("ValueWarning"))

\* the loops of dislocation_neighbours over a lattice of shape d
dislocation_loops(s, d, f, fm, bm) ==
    LET forward_neighbour == [p \in Sites(d) |-> s[p] + fm[p]]
        backward_neighbour == [p \in Sites(d) |-> s[p] + bm[p]]
    IN  IF f = 0
        THEN [err |-> None,
              neighbours |-> [p \in Sites(d) |->
                LET i == p[1]
                    j == p[2]
                IN  1 + Ind(s[<<i, j>>] <= forward_neighbour[<<Wrap(i + 1, d[1]), j>>])
                      + Ind(s[<<i, j>>] <= s[<<i, Wrap(j + 1, d[2])>>])
                      + Ind(s[<<i, j>>] <= backward_neighbour[<<Wrap(i - 1, d[1]), j>>])
                      + Ind(s[<<i, j>>] <= s[<<i, Wrap(j - 1, d[2])>>])]]
        ELSE IF f = 1
        THEN [err |-> None,
              neighbours |-> [p \in Sites(d) |->
                LET i == p[1]
                    j == p[2]
                IN  1 + Ind(s[<<i, j>>] <= s[<<Wrap(i + 1, d[1]), j>>])
                      + Ind(s[<<i, j>>] <= forward_neighbour[<<i, Wrap(j + 1, d[2])>>])
                      + Ind(s[<<i, j>>] <= s[<<Wrap(i - 1, d[1]), j>>])
                      + Ind(s[<<i, j>>] <= backward_neighbour[<<i, Wrap(j - 1, d[2])>>])]]
        ELSE IF NameLookup("ValueWarning") = None
        THEN [err |-> "ValueWarning", neighbours |-> None]
        ELSE [err |-> NameLookup("ValueWarning"), neighbours |-> None]

\* dims is neither a parameter nor a local of dislocation_neighbours: its first
\* statement, np.ones(dims), looks the name up at module level
dislocation_neighbours(s, f, fm, bm) ==
    IF NameLookup("dims") = None
    THEN dislocation_loops(s, CHOOSE d \in {} : TRUE, f, fm, bm)
    ELSE [err |-> NameLookup("dims"), neighbours |-> None]

BuildDislocation ==
    /\ pc = "dis_call"
    /\ pc' = "dis_built"
    /\ \E r \in {dislocation_matrices(dims, face, face_loc, boundaries, b)} :
         /\ err' = r.err
         /\ forward_matrix' = r.forward
         /\ backward_matrix' = r.backward
    /\ UNCHANGED <<dims, surface, T, mu, steps, before, event, location, target,
                   neigh, face, face_loc, boundaries, b>>

\* the classifier is called with the matrices built, for their face or for a bad face
DisClassify ==
    /\ pc = "dis_built"
    /\ err = None
    /\ pc' = "dis_done"
    /\ \E f \in {face, 2} :
         /\ face' = f
         /\ \E r \in {dislocation_neighbours(surface, f, forward_matrix, backward_matrix)} :
              /\ err' = r.err
              /\ neigh' = r.neighbours
    /\ UNCHANGED <<dims, surface, T, mu, steps, before, event, location, target,
                   face_loc, boundaries, b, forward_matrix, backward_matrix>>

----------------------------------------------------------------------------
(* Specifications *)

NoStep ==
    /\ steps = 0
    /\ before = surface
    /\ event = None
    /\ location = NoSite
    /\ target = NoSite
    /\ err = None
    /\ neigh = None

NoDescriptor ==
    /\ face = None
    /\ face_loc = None
    /\ boundaries = None
    /\ b = None
    /\ forward_matrix = None
    /\ backward_matrix = None

\* a run: the surface of init_crystal, then interaction steps
Init ==
    /\ pc = "run"
    /\ \E L \in 0 .. MaxL : dims = <<L, L>>
    /\ surface = init_crystal(dims)
    /\ \E tm \in Params : T = tm[1] /\ mu = tm[2]
    /\ NoStep
    /\ NoDescriptor

Next == Interaction

Spec == Init /\ [][Next]_vars

\* nearest_neighbours called on any lattice of two levels
InitNN ==
    /\ pc = "nn_call"
    /\ \E L \in 1 .. MaxNNL : dims = <<L, L>>
    /\ surface \in [Sites(dims) -> Levels]
    /\ T = 0
    /\ mu = 0
    /\ NoStep
    /\ NoDescriptor

NextNN == Classify

SpecNN == InitNN /\ [][NextNN]_vars

\* the all-ones lattice, or it with one site of its diagonal one lower or higher
DisSurfaces(d) ==
    {[p \in Sites(d) |-> IF p = <<k, k>> THEN h ELSE 1] :
        k \in 0 .. d[1] - 1, h \in 0 .. 2}

\* dislocation_matrices called with a configuration, then dislocation_neighbours
InitDis ==
    /\ pc = "dis_call"
    /\ \E L \in 2 .. MaxDisL : dims = <<L, L>>
    /\ surface \in DisSurfaces(dims)
    /\ T = 0
    /\ mu = 0
    /\ NoStep
    /\ face \in {0, 1, 2}
    /\ face_loc \in 1 .. dims[1] - 1
    /\ boundaries \in (0 .. dims[1] - 1) \X (0 .. dims[1])
    /\ b \in (0 - MaxB) .. MaxB
    /\ forward_matrix = None
    /\ backward_matrix = None

NextDis == BuildDislocation \/ DisClassify

SpecDis == InitDis /\ [][NextDis]_vars

----------------------------------------------------------------------------
(* Properties *)

StepEvents == {"deposit", "evaporate", "migrate_accepted", "migrate_rejected"}

\* the sum of f over the first k sites of a lattice of shape d, row by row
RECURSIVE SumFirst(_, _, _)
SumFirst(f, d, k) ==
    IF k = 0 THEN 0
    ELSE f[<<(k - 1) \div d[2], (k - 1) % d[2]>>] + SumFirst(f, d, k - 1)

\* the total surface volume
Volume(s, d) == SumFirst(s, d, d[1] * d[2])

\* the step just taken found the sum of the class rate masses R(n) equal to
\* zero: every site it had was of a class whose three rates are all zero
MassesZero ==
    \A p \in Sites(dims) :
        \E n \in {nearest_neighbours(before, dims)[p]} :
            /\ evaporation_rate(n, T) = 0
            /\ impingement_rate(mu, T) = 0
            /\ surface_migration_rate(n, n, T) = 0

\* C1: one call of interaction changes the total volume by +1 on a deposit,
\* by -1 on an evaporation and by 0 on a migration, accepted or rejected; the
\* total changes in no other way
C1_VolumeChange ==
    (pc = "run" /\ steps > 0) =>
        LET dv == Volume(surface, dims) - Volume(before, dims)
        IN  /\ event = "deposit" => dv = 1
            /\ event = "evaporate" => dv = 0 - 1
            /\ event \in {"migrate_accepted", "migrate_rejected"} => dv = 0
            /\ event \notin StepEvents => dv = 0

\* an accepted migration between two different sites has happened
C1_Witness ==
    /\ pc = "run"
    /\ event = "migrate_accepted"
    /\ target # location
    /\ surface # before

\* the four periodic axis neighbours of site p, in the order of the comparisons
AxisNeighbours(p, d) ==
    <<  <<(p[1] + 1) % d[1], p[2]>>,
        <<p[1], (p[2] + 1) % d[2]>>,
        <<(p[1] - 1) % d[1], p[2]>>,
        <<p[1], (p[2] - 1) % d[2]>>  >>

\* C2: one call of interaction applies one of three mutations in place:
\* +1 at the chosen site, -1 at the chosen site, or -1 at the chosen site with
\* +1 at the periodic-wrapped target; every other site and the shape are
\* unchanged, and a rejected migration or a failed call changes nothing
C2_OneMutation ==
    (pc = "run" /\ steps > 0) =>
        /\ DOMAIN surface = Sites(dims)
        /\ DOMAIN before = Sites(dims)
        /\ event = "deposit" =>
              /\ location \in Sites(dims)
              /\ \A p \in Sites(dims) : surface[p] = before[p] + Ind(p = location)
        /\ event = "evaporate" =>
              /\ location \in Sites(dims)
              /\ \A p \in Sites(dims) : surface[p] = before[p] - Ind(p = location)
        /\ event = "migrate_accepted" =>
              /\ location \in Sites(dims)
              /\ \E mg \in Migrations :
                    target = <<(location[1] + mg[1]) % dims[1],
                               (location[2] + mg[2]) % dims[2]>>
              /\ \A p \in Sites(dims) :
                    surface[p] = before[p] - Ind(p = location) + Ind(p = target)
        /\ event = "migrate_rejected" => surface = before
        /\ event \notin StepEvents => (err # None /\ surface = before)

\* an accepted migration has wrapped around the edge of the lattice
C2_Witness ==
    /\ pc = "run"
    /\ event = "migrate_accepted"
    /\ dims[1] >= 2
    /\ location[1] = dims[1] - 1
    /\ target[1] = 0
    /\ surface[target] = before[target] + 1

\* C3: nearest_neighbours gives site (i,j) the value 1 + the number of its four
\* periodic axis neighbours at least as high as (i,j); every value lies in
\* 1..5, and the surface is not modified
C3_NeighbourValue ==
    pc = "nn_done" =>
        /\ surface = before
        /\ \A p \in Sites(dims) :
              /\ neigh[p] = 1 + Cardinality({k \in 1 .. 4 :
                                    surface[AxisNeighbours(p, dims)[k]] >= surface[p]})
              /\ neigh[p] \in 1 .. 5

\* a 3 x 3 lattice has been classified into sites of class 1, of class 3 and of class 5
C3_Witness ==
    /\ pc = "nn_done"
    /\ dims = <<3, 3>>
    /\ \E p, q, r \in Sites(dims) : neigh[p] = 1 /\ neigh[q] = 3 /\ neigh[r] = 5

\* the lattice f shifted cyclically by (dr, dc)
Shifted(f, d, dr, dc) ==
    [p \in Sites(d) |-> f[<<(p[1] - dr) % d[1], (p[2] - dc) % d[2]>>]]

\* C5: classifying the surface shifted cyclically by (dr,dc) gives the
\* NeighborGrid of the surface shifted by the same (dr,dc)
C5_TranslationInvariant ==
    pc = "nn_done" =>
        \A dr \in 0 .. dims[1] - 1 : \A dc \in 0 .. dims[2] - 1 :
            nearest_neighbours(Shifted(surface, dims, dr, dc), dims)
                = Shifted(neigh, dims, dr, dc)

\* a 3 x 3 lattice that is not flat and whose shift by (1,1) differs from it
C5_Witness ==
    /\ pc = "nn_done"
    /\ dims = <<3, 3>>
    /\ Shifted(surface, dims, 1, 1) # surface
    /\ \E p, q \in Sites(dims) : neigh[p] # neigh[q]

C8_Matrices ==
    (pc = "dis_built" /\ err = None) =>
        LET OnLine(i) == boundaries[1] <= i /\ i < boundaries[2]
        IN  /\ face \in {0, 1}
            /\ DOMAIN forward_matrix = Sites(dims)
            /\ DOMAIN backward_matrix = Sites(dims)
            /\ face = 0 =>
                  \A p \in Sites(dims) :
                     /\ forward_matrix[p] =
                           (IF p[1] = face_loc /\ OnLine(p[2]) THEN b ELSE 0)
                     /\ backward_matrix[p] =
                           (IF p[1] = face_loc - 1 /\ OnLine(p[2]) THEN 0 - b ELSE 0)
            /\ face = 1 =>
                  \A p \in Sites(dims) :
                     /\ forward_matrix[p] =
                           (IF p[2] = face_loc /\ OnLine(p[1]) THEN b ELSE 0)
                     /\ backward_matrix[p] =
                           (IF p[2] = face_loc - 1 /\ OnLine(p[1]) THEN 0 - b ELSE 0)
            /\ (dims = <<5, 5>> /\ face = 0 /\ face_loc = 2
                    /\ boundaries = <<1, 4>> /\ b = 1) =>
                  /\ forward_matrix =
                        [p \in Sites(dims) |->
                            IF p \in {<<2, 1>>, <<2, 2>>, <<2, 3>>} THEN 1 ELSE 0]
                  /\ backward_matrix =
                        [p \in Sites(dims) |->
                            IF p \in {<<1, 1>>, <<1, 2>>, <<1, 3>>} THEN 0 - 1 ELSE 0]

\* the matrices of face 0, face_loc 2, boundaries (1,4), b = 1 on 5 x 5 are built
C8_Witness ==
    /\ pc = "dis_built"
    /\ err = None
    /\ dims = <<5, 5>>
    /\ face = 0
    /\ face_loc = 2
    /\ boundaries = <<1, 4>>
    /\ b = 1
    /\ forward_matrix[<<2, 1>>] = 1

\* C9: no floor is enforced: an evaporation, or an accepted migration to
\* another site, lowers the chosen site by one whatever its height, so from
\* the all-ones surface of init_crystal a height below 0 is reached
C9_NoFloor ==
    (pc = "run" /\ steps > 0) =>
        /\ event = "evaporate" => surface[location] = before[location] - 1
        /\ (event = "migrate_accepted" /\ target # location) =>
              surface[location] = before[location] - 1

\* some site of a run that began with init_crystal is below height 0
C9_Witness ==
    /\ pc = "run"
    /\ \E p \in Sites(dims) : surface[p] < 0

\* C4: in every step with a positive T and a nonzero rate mass, whatever the
\* uniform draw, choose_subset returns a class, the class has at least one
\* member site, and the site chosen is one of its members
C4_ClassSelected ==
    (pc = "run" /\ steps > 0 /\ T > 0 /\ ~MassesZero) =>
        /\ err = None
        /\ location \in Sites(dims)
        /\ nearest_neighbours(before, dims)[location] \in 1 .. 5

\* C6: an invalid configuration is rejected before any mutation:
\* dislocation_matrices and dislocation_neighbours fail when face is not 0 or
\* 1, dislocation_matrices fails when start >= end, and a step with a
\* non-positive T fails and leaves the surface unchanged
C6_InvalidRejected ==
    /\ (pc = "run" /\ steps > 0 /\ T <= 0) => (err # None /\ surface = before)
    /\ (pc = "dis_built" /\ face \notin {0, 1}) => err # None
    /\ (pc = "dis_built" /\ boundaries[1] >= boundaries[2]) => err # None
    /\ (pc = "dis_done" /\ face \notin {0, 1}) => err # None

\* C10: with b = 0, dislocation_neighbours returns for face 0 and face 1 the
\* NeighborGrid of nearest_neighbours, and leaves the surface unchanged
C10_NoDislocationSame ==
    (pc = "dis_done" /\ b = 0 /\ face \in {0, 1}) =>
        /\ err = None
        /\ neigh = nearest_neighbours(surface, dims)
        /\ surface = before

====
